---- MODULE Spec2Model ----
(***************************************************************************)
(* Model of term1/AIND-Isolation/game_agent.py: the mobility evaluation    *)
(* function custom_score, the two search cores CustomPlayer.minimax and    *)
(* CustomPlayer.alphabeta, and the driver CustomPlayer.get_move.           *)
(*                                                                         *)
(* The Board the agent plays on (isolation.Board) is not part of the       *)
(* source file; it is modelled from its interface: an ordered list of      *)
(* legal moves, forecast_move, the terminal predicates is_winner and       *)
(* is_loser, and the accessors width, height, move_count, active_player    *)
(* and inactive_player.                                                    *)
(***************************************************************************)
EXTENDS Integers, Sequences, FiniteSets, TLC

(***************************************************************************)
(* Bounds of the model.                                                    *)
(***************************************************************************)
Width == 3
Height == 3
MaxBlocked == 1
MaxDepth == 2
MaxTime == 6

(***************************************************************************)
(* Program constants.                                                      *)
(***************************************************************************)
\* float("inf"): larger than every finite mobility difference (at most 8).
PosInf == 100
NegInf == 0 - PosInf
\* timeout=10. in CustomPlayer.__init__
TIMER_THRESHOLD == 10
NoMove == <<-1, -1>>
Methods == {"minimax", "alphabeta"}

(***************************************************************************)
(* The Board adapter.                                                      *)
(***************************************************************************)
Cells == (0 .. Height - 1) \X (0 .. Width - 1)

Directions ==
    << <<-2, -1>>, <<-2, 1>>, <<-1, -2>>, <<-1, 2>>,
       <<1, -2>>, <<1, 2>>, <<2, -1>>, <<2, 1>> >>

Opponent(p) == 3 - p

active_player(game) == game.active

inactive_player(game) == Opponent(game.active)

get_opponent(game, player) == Opponent(player)

move_count(game) == Cardinality(game.blocked)

get_legal_moves(game, player) ==
    LET from == game.loc[player]
        cand == [i \in 1 .. Len(Directions) |->
                    <<from[1] + Directions[i][1], from[2] + Directions[i][2]>>]
    IN  SelectSeq(cand, LAMBDA m : m \in Cells /\ m \notin game.blocked)

forecast_move(game, move) ==
    [blocked |-> game.blocked \cup {move},
     loc     |-> [game.loc EXCEPT ![game.active] = move],
     active  |-> Opponent(game.active)]

is_loser(game, player) ==
    /\ player = game.active
    /\ get_legal_moves(game, game.active) = << >>

is_winner(game, player) ==
    /\ player = Opponent(game.active)
    /\ get_legal_moves(game, game.active) = << >>

RECURSIVE SubsetsUpTo(_, _)
SubsetsUpTo(S, k) ==
    IF k = 0 THEN {{}}
    ELSE LET P == SubsetsUpTo(S, k - 1)
         IN  P \cup {X \cup {c} : X \in P, c \in S}

\* Positions with both players placed and at most MaxBlocked further cells used.
Positions ==
    UNION { { [blocked |-> {l[1], l[2]} \cup X, loc |-> <<l[1], l[2]>>, active |-> p] :
                X \in SubsetsUpTo(Cells \ {l[1], l[2]}, MaxBlocked), p \in 1 .. 2 } :
            l \in {q \in Cells \X Cells : q[1] # q[2]} }

(***************************************************************************)
(* The time probe: a clock that reports `left` and then runs down by       *)
(* `tick` per reading.                                                     *)
(***************************************************************************)
Reading(clk) == clk.left

Tick(clk) == [clk EXCEPT !.left = @ - clk.tick]

(***************************************************************************)
(* custom_score                                                            *)
(***************************************************************************)
custom_score_OpponentOnly(game, player) ==
    IF is_loser(game, player) THEN NegInf
    ELSE IF is_winner(game, player) THEN PosInf
    ELSE Len(get_legal_moves(game, get_opponent(game, player)))

custom_score(game, player) ==
    IF is_loser(game, player) THEN NegInf
    ELSE IF is_winner(game, player) THEN PosInf
    ELSE LET numberOfMyMoves == get_legal_moves(game, player)
             numberOfOpponentMoves == get_legal_moves(game, get_opponent(game, player))
         IN  Len(numberOfMyMoves) - Len(numberOfOpponentMoves)

(***************************************************************************)
(* Pieces shared by minimax and alphabeta.  A search returns a record:     *)
(* timeout (Timeout was raised), score, move, clk (the clock afterwards)   *)
(* and log, the sequence of things the search did.                         *)
(***************************************************************************)
Ev(kind, game, depth, maxi, val, move) ==
    [ev |-> kind, game |-> game, depth |-> depth, maxi |-> maxi,
     val |-> val, move |-> move]

Raise(clk, log) ==
    [timeout |-> TRUE, score |-> 0, move |-> NoMove, clk |-> clk, log |-> log]

Return(score, move, clk, log) ==
    [timeout |-> FALSE, score |-> score, move |-> move, clk |-> clk, log |-> log]

TimeExpiredAtMargin(reading) == reading <= TIMER_THRESHOLD

TimeExpired(reading) == reading < TIMER_THRESHOLD

SeedSwapped(maximizing_player) ==
    IF maximizing_player THEN PosInf ELSE NegInf

Seed(maximizing_player) ==
    IF maximizing_player = FALSE THEN PosInf ELSE NegInf

Perspective(game, maximizing_player) ==
    IF maximizing_player THEN active_player(game) ELSE inactive_player(game)

Better(maximizing_player, potentialScore, highest_score) ==
    IF maximizing_player THEN potentialScore > highest_score
    ELSE potentialScore < highest_score

PruneSwapped(alpha, beta) == alpha <= beta

Prune(alpha, beta) == beta <= alpha

Max(a, b) == IF a >= b THEN a ELSE b

Min(a, b) == IF a <= b THEN a ELSE b

(***************************************************************************)
(* CustomPlayer.minimax                                                    *)
(***************************************************************************)
RECURSIVE minimax(_, _, _, _)
RECURSIVE minimax_loop(_, _, _, _, _, _, _, _)
RECURSIVE minimax_loop_FirstOnly(_, _, _, _, _, _, _, _)
RECURSIVE minimax_loop_Catch(_, _, _, _, _, _, _, _)

\* The return statement indented into the loop: only the first move is tried.
minimax_loop_FirstOnly(game, depth, maxi, moves, highest_score, next_move, clk, log) ==
    IF moves = << >>
    THEN Return(highest_score, next_move, clk,
                Append(log, Ev("ret", game, depth, maxi, highest_score, next_move)))
    ELSE LET move == Head(moves)
             r == minimax(forecast_move(game, move), depth - 1, ~maxi, clk)
             log1 == Append(log, Ev("forecast", game, depth, maxi, 0, move)) \o r.log
         IN  IF r.timeout THEN Raise(r.clk, log1)
             ELSE LET better == Better(maxi, r.score, highest_score)
                      hs == IF better THEN r.score ELSE highest_score
                      nm == IF better THEN move ELSE next_move
                  IN  Return(hs, nm, r.clk,
                             Append(log1, Ev("ret", game, depth, maxi, hs, nm)))

\* Timeout caught inside the loop: the frame returns what it has so far.
minimax_loop_Catch(game, depth, maxi, moves, highest_score, next_move, clk, log) ==
    IF moves = << >>
    THEN Return(highest_score, next_move, clk,
                Append(log, Ev("ret", game, depth, maxi, highest_score, next_move)))
    ELSE LET move == Head(moves)
             r == minimax(forecast_move(game, move), depth - 1, ~maxi, clk)
             log1 == Append(log, Ev("forecast", game, depth, maxi, 0, move)) \o r.log
         IN  IF r.timeout
             THEN Return(highest_score, next_move, r.clk,
                         Append(log1, Ev("ret", game, depth, maxi, highest_score, next_move)))
             ELSE LET better == Better(maxi, r.score, highest_score)
                      hs == IF better THEN r.score ELSE highest_score
                      nm == IF better THEN move ELSE next_move
                  IN  minimax_loop(game, depth, maxi, Tail(moves), hs, nm, r.clk, log1)

\* The for loop of minimax over the remaining moves.
minimax_loop(game, depth, maxi, moves, highest_score, next_move, clk, log) ==
    IF moves = << >>
    THEN Return(highest_score, next_move, clk,
                Append(log, Ev("ret", game, depth, maxi, highest_score, next_move)))
    ELSE LET move == Head(moves)
             r == minimax(forecast_move(game, move), depth - 1, ~maxi, clk)
             log1 == Append(log, Ev("forecast", game, depth, maxi, 0, move)) \o r.log
         IN  IF r.timeout THEN Raise(r.clk, log1)
             ELSE LET better == Better(maxi, r.score, highest_score)
                      hs == IF better THEN r.score ELSE highest_score
                      nm == IF better THEN move ELSE next_move
                  IN  minimax_loop(game, depth, maxi, Tail(moves), hs, nm, r.clk, log1)

minimax(game, depth, maximizing_player, clk) ==
    LET reading == Reading(clk)
        clk1 == Tick(clk)
        probe == << Ev("probe", game, depth, maximizing_player, reading, NoMove) >>
    IN  IF TimeExpired(reading)
        THEN Raise(clk1, Append(probe, Ev("raise", game, depth, maximizing_player, 0, NoMove)))
        ELSE IF depth # 0
        THEN LET legal_moves == get_legal_moves(game, active_player(game))
             IN  minimax_loop(game, depth, maximizing_player, legal_moves,
                              Seed(maximizing_player), NoMove, clk1,
                              Append(probe, Ev("moves", game, depth, maximizing_player,
                                               Len(legal_moves), NoMove)))
        ELSE LET s == custom_score(game, Perspective(game, maximizing_player))
             IN  Return(s, NoMove, clk1,
                        probe \o << Ev("score", game, depth, maximizing_player, s, NoMove),
                                    Ev("ret", game, depth, maximizing_player, s, NoMove) >>)

(***************************************************************************)
(* CustomPlayer.alphabeta                                                  *)
(***************************************************************************)
RECURSIVE alphabeta(_, _, _, _, _, _)
RECURSIVE alphabeta_loop(_, _, _, _, _, _, _, _, _, _)

\* The for loop of alphabeta over the remaining moves.
alphabeta_loop(game, depth, maxi, moves, highest_score, next_move, alpha, beta, clk, log) ==
    IF moves = << >>
    THEN Return(highest_score, next_move, clk,
                Append(log, Ev("ret", game, depth, maxi, highest_score, next_move)))
    ELSE LET move == Head(moves)
             r == alphabeta(forecast_move(game, move), depth - 1, alpha, beta, ~maxi, clk)
             log1 == Append(log, Ev("forecast", game, depth, maxi, 0, move)) \o r.log
         IN  IF r.timeout THEN Raise(r.clk, log1)
             ELSE LET better == Better(maxi, r.score, highest_score)
                      hs == IF better THEN r.score ELSE highest_score
                      nm == IF better THEN move ELSE next_move
                      a == IF maxi THEN Max(alpha, hs) ELSE alpha
                      b == IF maxi THEN beta ELSE Min(beta, hs)
                  IN  IF Prune(a, b)
                      THEN Return(hs, nm, r.clk,
                                  Append(log1, Ev("ret", game, depth, maxi, hs, nm)))
                      ELSE alphabeta_loop(game, depth, maxi, Tail(moves), hs, nm,
                                          a, b, r.clk, log1)

alphabeta(game, depth, alpha, beta, maximizing_player, clk) ==
    LET reading == Reading(clk)
        clk1 == Tick(clk)
        probe == << Ev("probe", game, depth, maximizing_player, reading, NoMove) >>
    IN  IF TimeExpired(reading)
        THEN Raise(clk1, Append(probe, Ev("raise", game, depth, maximizing_player, 0, NoMove)))
        ELSE IF depth # 0
        THEN LET legal_moves == get_legal_moves(game, active_player(game))
             IN  alphabeta_loop(game, depth, maximizing_player, legal_moves,
                                Seed(maximizing_player), NoMove, alpha, beta, clk1,
                                Append(probe, Ev("moves", game, depth, maximizing_player,
                                                 Len(legal_moves), NoMove)))
        ELSE LET s == custom_score(game, Perspective(game, maximizing_player))
             IN  Return(s, NoMove, clk1,
                        probe \o << Ev("score", game, depth, maximizing_player, s, NoMove),
                                    Ev("ret", game, depth, maximizing_player, s, NoMove) >>)

(***************************************************************************)
(* State.  game, legal_moves, cfg and clock are the arguments and the      *)
(* configuration of one get_move call; pc, next_move, iteration_candidate  *)
(* and result are its locals and its return value.  hist records one entry *)
(* per search get_move started and log is the log of the latest search.    *)
(* cdepth, ran, mm, ab and sc belong to the direct calls of the cores and  *)
(* of custom_score.                                                        *)
(***************************************************************************)
VARIABLES game, legal_moves, cfg, clock, pc, next_move, iteration_candidate,
          result, hist, log, cdepth, ran, mm, ab, sc

vars == <<game, legal_moves, cfg, clock, pc, next_move, iteration_candidate,
          result, hist, log, cdepth, ran, mm, ab, sc>>

coreVars == <<cdepth, ran, mm, ab, sc>>

Range(s) == {s[i] : i \in DOMAIN s}

NoResult == Return(0, NoMove, [left |-> 0, tick |-> 0], << >>)

NoScore == [player |-> 0, value |-> 0]

\* search_depth is read only when iterative is false.
Configs ==
    {c \in [iterative : BOOLEAN, method : Methods, search_depth : 1 .. MaxDepth] :
        c.iterative => c.search_depth = MaxDepth}

\* A probe that reports the same remaining time at every reading.
SteadyClock == [left |-> TIMER_THRESHOLD + 1, tick |-> 0]

\* Probes that lose one unit per reading, and the steady one.
Clocks ==
    {[left |-> t, tick |-> 1] :
        t \in (TIMER_THRESHOLD - 1) .. (TIMER_THRESHOLD + MaxTime)}
    \cup {SteadyClock}

(***************************************************************************)
(* CustomPlayer.get_move                                                   *)
(***************************************************************************)
Init ==
    /\ game \in Positions
    /\ legal_moves = get_legal_moves(game, active_player(game))
    /\ cfg \in Configs
    /\ clock \in Clocks
    /\ pc = "get_move"
    /\ next_move = NoMove
    /\ iteration_candidate = << >>
    /\ result = NoMove
    /\ hist = << >>
    /\ log = << >>
    /\ cdepth = 0
    /\ ran = {}
    /\ mm = NoResult
    /\ ab = NoResult
    /\ sc = NoScore

IterationCandidate(g, c) ==
    IF c.iterative
    THEN [i \in 1 .. (move_count(g) + Width * Height - 2) |-> i]
    ELSE << c.search_depth >>

Search(depth) ==
    IF cfg.method = "alphabeta"
    THEN alphabeta(game, depth, NegInf, PosInf, TRUE, clock)
    ELSE minimax(game, depth, TRUE, clock)

AdoptAlways(score) == TRUE

Adopt(score) == score # NegInf

Raised(L) == \E i \in DOMAIN L : L[i].ev = "raise"

HistEntry(depth, r) ==
    [depth |-> depth, timeout |-> r.timeout, score |-> r.score, move |-> r.move,
     raised |-> Raised(r.log), held |-> next_move]

GetMoveNoMoves ==
    /\ pc = "get_move"
    /\ legal_moves = << >>
    /\ result' = NoMove
    /\ pc' = "done"
    /\ UNCHANGED <<game, legal_moves, cfg, clock, next_move, iteration_candidate,
                   hist, log, coreVars>>

GetMoveBegin ==
    /\ pc = "get_move"
    /\ legal_moves # << >>
    /\ next_move' = legal_moves[1]
    /\ iteration_candidate' = IterationCandidate(game, cfg)
    /\ pc' = "loop"
    /\ UNCHANGED <<game, legal_moves, cfg, clock, result, hist, log, coreVars>>

\* One pass of the for loop: the search at the next depth and what follows it.
Iteration ==
    /\ pc = "loop"
    /\ iteration_candidate # << >>
    /\ LET depth == Head(iteration_candidate)
           r == Search(depth)
       IN  /\ clock' = r.clk
           /\ hist' = Append(hist, HistEntry(depth, r))
           /\ log' = r.log
           /\ IF r.timeout
              THEN \* except Timeout: pass
                   /\ pc' = "return"
                   /\ UNCHANGED <<next_move, iteration_candidate>>
              ELSE IF r.score = PosInf
              THEN \* break
                   /\ pc' = "return"
                   /\ UNCHANGED <<next_move, iteration_candidate>>
              ELSE /\ next_move' = IF Adopt(r.score) THEN r.move ELSE next_move
                   /\ iteration_candidate' = Tail(iteration_candidate)
                   /\ pc' = "loop"
    /\ UNCHANGED <<game, legal_moves, cfg, result, coreVars>>

LoopExhausted ==
    /\ pc = "loop"
    /\ iteration_candidate = << >>
    /\ pc' = "return"
    /\ UNCHANGED <<game, legal_moves, cfg, clock, next_move, iteration_candidate,
                   result, hist, log, coreVars>>

ReturnNextMove ==
    /\ pc = "return"
    /\ result' = next_move
    /\ pc' = "done"
    /\ UNCHANGED <<game, legal_moves, cfg, clock, next_move, iteration_candidate,
                   hist, log, coreVars>>

Next ==
    \/ GetMoveNoMoves
    \/ GetMoveBegin
    \/ Iteration
    \/ LoopExhausted
    \/ ReturnNextMove

Spec == Init /\ [][Next]_vars

(***************************************************************************)
(* Direct calls of minimax, alphabeta and custom_score on one position,    *)
(* with a probe that never reports an expired budget.                      *)
(***************************************************************************)
InitCore ==
    /\ game \in Positions
    /\ legal_moves = get_legal_moves(game, active_player(game))
    /\ cfg = [iterative |-> FALSE, method |-> "minimax", search_depth |-> 1]
    /\ clock = SteadyClock
    /\ pc = "core"
    /\ next_move = NoMove
    /\ iteration_candidate = << >>
    /\ result = NoMove
    /\ hist = << >>
    /\ log = << >>
    /\ cdepth \in 0 .. MaxDepth
    /\ ran = {}
    /\ mm = NoResult
    /\ ab = NoResult
    /\ sc = NoScore

getMoveVars == <<game, legal_moves, cfg, clock, pc, next_move, iteration_candidate,
                 result, hist, log>>

RunMinimax ==
    /\ pc = "core"
    /\ "minimax" \notin ran
    /\ mm' = minimax(game, cdepth, TRUE, clock)
    /\ ran' = ran \cup {"minimax"}
    /\ UNCHANGED <<getMoveVars, cdepth, ab, sc>>

RunAlphabeta ==
    /\ pc = "core"
    /\ "alphabeta" \notin ran
    /\ ab' = alphabeta(game, cdepth, NegInf, PosInf, TRUE, clock)
    /\ ran' = ran \cup {"alphabeta"}
    /\ UNCHANGED <<getMoveVars, cdepth, mm, sc>>

RunScore ==
    /\ pc = "core"
    /\ "score" \notin ran
    /\ \E player \in 1 .. 2 :
          sc' = [player |-> player, value |-> custom_score(game, player)]
    /\ ran' = ran \cup {"score"}
    /\ UNCHANGED <<getMoveVars, cdepth, mm, ab>>

NextCore ==
    \/ RunMinimax
    \/ RunAlphabeta
    \/ RunScore

SpecCore == InitCore /\ [][NextCore]_vars

(***************************************************************************)
(* Helpers of the properties.                                              *)
(***************************************************************************)
Evaluated(L) == SelectSeq(L, LAMBDA e : e.ev = "score")

EvaluatedPositions(L) == {e.game : e \in Range(Evaluated(L))}

\* The first event of every call in a log: the first one, and the one after
\* each forecast_move.
CallStarts(L) == {1} \cup {i + 1 : i \in {j \in DOMAIN L : L[j].ev = "forecast"}}

\* The score minimax gives the child reached by a root move.
ChildScore(m) == minimax(forecast_move(game, m), cdepth - 1, FALSE, SteadyClock).score

BestMoves == {i \in DOMAIN legal_moves : ChildScore(legal_moves[i]) = mm.score}

Stuck(g) == get_legal_moves(g, active_player(g)) = << >>

StuckReturns(L) ==
    {i \in DOMAIN L : L[i].ev = "ret" /\ L[i].depth >= 1 /\ Stuck(L[i].game)}

\* Every such return carries (-1, -1) and the terminal evaluation of its position.
StuckReturnsTerminal(L) ==
    \A i \in StuckReturns(L) :
        /\ L[i].move = NoMove
        /\ L[i].val = custom_score(L[i].game, Perspective(L[i].game, L[i].maxi))
        /\ L[i].val = (IF L[i].maxi THEN NegInf ELSE PosInf)

\* Completed iterations before the i-th whose score was neither extreme.
AdoptedBefore(i) ==
    {j \in 1 .. (i - 1) : ~hist[j].timeout /\ hist[j].score \notin {NegInf, PosInf}}

BestBefore(i) ==
    IF AdoptedBefore(i) = {} THEN legal_moves[1]
    ELSE hist[CHOOSE j \in AdoptedBefore(i) : \A k \in AdoptedBefore(i) : k <= j].move

(***************************************************************************)
(* C1: in iterative deepening, a search that completes with score +inf is  *)
(* the last search started, and get_move returns the move of that search.  *)
(***************************************************************************)
C1_WinningMoveReturned ==
    cfg.iterative =>
        \A i \in DOMAIN hist :
            (~hist[i].timeout /\ hist[i].score = PosInf) =>
                /\ i = Len(hist)
                /\ pc = "done" => result = hist[i].move

(***************************************************************************)
(* C2: without a deadline abort, alphabeta started with alpha = -inf and   *)
(* beta = +inf returns the score minimax returns for the same position and *)
(* depth, and the same move unless several root moves tie on that score.   *)
(***************************************************************************)
C2_AlphabetaAgreesWithMinimax ==
    {"minimax", "alphabeta"} \subseteq ran =>
        /\ ~mm.timeout /\ ~ab.timeout
        /\ ab.score = mm.score
        /\ ab.move = mm.move \/ Cardinality(BestMoves) >= 2

C2_Witness ==
    /\ {"minimax", "alphabeta"} \subseteq ran
    /\ cdepth >= 2
    /\ Len(ab.log) < Len(mm.log)
    /\ mm.score \notin {NegInf, PosInf}
    /\ ab.move = mm.move

(***************************************************************************)
(* C3: a Timeout raised inside a search reaches get_move as a Timeout, no  *)
(* further search is started, and get_move returns the move it held when   *)
(* the aborted search began: the move of the last completed search that    *)
(* was adopted, or the first legal move if there is none.                  *)
(***************************************************************************)
C3_AbortKeepsLastCompleted ==
    \A i \in DOMAIN hist :
        hist[i].raised =>
            /\ hist[i].timeout
            /\ i = Len(hist)
            /\ pc \in {"return", "done"}
            /\ next_move = hist[i].held
            /\ hist[i].held = BestBefore(i)
            /\ pc = "done" => result = BestBefore(i)

C3_Witness ==
    /\ pc = "done"
    /\ Len(hist) >= 2
    /\ hist[Len(hist)].raised
    /\ Len(log) > 2
    /\ AdoptedBefore(Len(hist)) # {}
    /\ result # legal_moves[1]

(***************************************************************************)
(* C4 as stated: every call of a core reads the probe first and raises     *)
(* Timeout when the reading is at or below the margin, doing nothing else. *)
(***************************************************************************)
C4_AbortAtOrBelowMargin ==
    log # << >> =>
        \A i \in CallStarts(log) :
            /\ i <= Len(log)
            /\ log[i].ev = "probe"
            /\ log[i].val <= TIMER_THRESHOLD =>
                  /\ i + 1 = Len(log)
                  /\ log[i + 1].ev = "raise"

(***************************************************************************)
(* C4 as amended: every call of a core reads the probe first; it raises    *)
(* Timeout, evaluating and expanding nothing, exactly when the reading is  *)
(* strictly below the margin, and goes on when the reading equals it.      *)
(***************************************************************************)
C4_AbortBelowMargin ==
    log # << >> =>
        /\ \A i \in CallStarts(log) :
              /\ i <= Len(log)
              /\ log[i].ev = "probe"
              /\ i + 1 <= Len(log)
              /\ IF log[i].val < TIMER_THRESHOLD
                 THEN i + 1 = Len(log) /\ log[i + 1].ev = "raise"
                 ELSE log[i + 1].ev = (IF log[i].depth # 0 THEN "moves" ELSE "score")
        /\ \A i \in DOMAIN log :
              /\ log[i].ev = "probe" => i \in CallStarts(log)
              /\ log[i].ev = "raise" => i > 1 /\ log[i - 1].ev = "probe"

C4_Witness ==
    /\ Len(log) > 2
    /\ log[Len(log)].ev = "raise"
    /\ \E i \in DOMAIN log : log[i].ev = "probe" /\ log[i].val = TIMER_THRESHOLD

(***************************************************************************)
(* C5: with no legal moves get_move returns (-1, -1) and starts no search; *)
(* otherwise it returns one of the legal moves, never (-1, -1).            *)
(***************************************************************************)
C5_ReturnsLegalMove ==
    /\ legal_moves = << >> => hist = << >> /\ log = << >> /\ pc \in {"get_move", "done"}
    /\ pc = "done" =>
          IF legal_moves = << >> THEN result = NoMove
          ELSE result \in Range(legal_moves) /\ result # NoMove

C5_Witness ==
    /\ pc = "done"
    /\ legal_moves # << >>
    /\ \E i \in DOMAIN hist :
          ~hist[i].timeout /\ hist[i].score = NegInf /\ hist[i].move = NoMove

(***************************************************************************)
(* C6: iterative deepening searches depths 1, 2, 3, ... in order, none     *)
(* deeper than width * height - move_count; a fixed-depth get_move         *)
(* searches once, at search_depth.                                         *)
(***************************************************************************)
C6_DepthSchedule ==
    IF cfg.iterative
    THEN \A i \in DOMAIN hist :
            /\ hist[i].depth = i
            /\ hist[i].depth <= Width * Height - move_count(game)
    ELSE /\ Len(hist) <= 1
         /\ \A i \in DOMAIN hist : hist[i].depth = cfg.search_depth
         /\ (pc = "done" /\ legal_moves # << >>) => Len(hist) = 1

(***************************************************************************)
(* C7: custom_score is +inf exactly for a winner, -inf exactly for a       *)
(* loser, and otherwise the finite difference between the player's and the *)
(* opponent's numbers of legal moves.                                      *)
(***************************************************************************)
C7_ScoreMatchesTerminalPredicates ==
    "score" \in ran =>
        /\ sc.value = PosInf <=> is_winner(game, sc.player)
        /\ sc.value = NegInf <=> is_loser(game, sc.player)
        /\ (~is_winner(game, sc.player) /\ ~is_loser(game, sc.player)) =>
              /\ sc.value = Len(get_legal_moves(game, sc.player))
                            - Len(get_legal_moves(game, Opponent(sc.player)))
              /\ NegInf < sc.value /\ sc.value < PosInf

C7_Witness ==
    /\ "score" \in ran
    /\ ~is_winner(game, sc.player) /\ ~is_loser(game, sc.player)
    /\ Len(get_legal_moves(game, sc.player)) = 2
    /\ Len(get_legal_moves(game, Opponent(sc.player))) = 1
    /\ sc.value = 1

(***************************************************************************)
(* C8: alphabeta calls the evaluation function no more often than minimax  *)
(* on the same position and depth, and only on positions minimax also      *)
(* evaluates.                                                              *)
(***************************************************************************)
C8_AlphabetaEvaluatesNoMore ==
    {"minimax", "alphabeta"} \subseteq ran =>
        /\ Len(Evaluated(ab.log)) <= Len(Evaluated(mm.log))
        /\ EvaluatedPositions(ab.log) \subseteq EvaluatedPositions(mm.log)

C8_Witness ==
    /\ {"minimax", "alphabeta"} \subseteq ran
    /\ Len(Evaluated(ab.log)) >= 1
    /\ Len(Evaluated(ab.log)) < Len(Evaluated(mm.log))

(***************************************************************************)
(* C9: minimax at depth >= 1 on a position with a legal move returns the   *)
(* earliest legal move whose child score equals the returned score, so a   *)
(* legal move and never (-1, -1).                                          *)
(***************************************************************************)
C9_MinimaxReturnsEarliestBest ==
    ("minimax" \in ran /\ cdepth >= 1 /\ legal_moves # << >>) =>
        /\ mm.move \in Range(legal_moves)
        /\ mm.move # NoMove
        /\ BestMoves # {}
        /\ \A i \in BestMoves : mm.move = legal_moves[i] \/ \E j \in BestMoves : j < i

(***************************************************************************)
(* C10: a call at depth >= 1 on a position whose mover has no legal move   *)
(* returns (-1, -1) with the score the evaluation function gives that      *)
(* position from the perspective used at depth 0: -inf on a maximizing     *)
(* ply, +inf on a minimizing ply.                                          *)
(***************************************************************************)
C10_StuckMoverScoredAsTerminal ==
    /\ StuckReturnsTerminal(mm.log)
    /\ StuckReturnsTerminal(ab.log)

C10_Witness ==
    /\ \E i \in StuckReturns(mm.log) : ~mm.log[i].maxi /\ mm.log[i].val = PosInf
    /\ \E i \in StuckReturns(ab.log) : ~ab.log[i].maxi /\ ab.log[i].val = PosInf

====
